---- MODULE Spec2Model ----
(***************************************************************************)
(* KNXPacket (bof/layers/knx/knx_packet.py): the facade that builds a KNX  *)
(* frame from raw bytes, from a pre-built layer tree or from a type        *)
(* descriptor, and bof.base.to_property, the name normalisation it uses.   *)
(*                                                                         *)
(* A frame is a sequence of layers, root first; a layer is a record        *)
(* [cls, name, fields], fields an ordered sequence of [name, val].         *)
(* Python values are tagged records [kind, val], val a sequence of         *)
(* integers: the code points of a "str", the bytes of a "bytes", the one   *)
(* number of an "int", nothing for "none".  Service names are words over   *)
(* the four characters "A", "a", "_" and " " (65, 97, 95, 32).             *)
(***************************************************************************)
EXTENDS Integers, Sequences, FiniteSets, TLC

VARIABLES SERVICE_IDENTIFIER_CODES, payload_guess, scapy_pkt, pc, call

vars == <<SERVICE_IDENTIFIER_CODES, payload_guess, scapy_pkt, pc, call>>

---------------------------------------------------------------------------
(* Bounds of the model.                                                    *)

MaxNameLen == 3
MaxBytesLen == 2
MaxGuess == 2

---------------------------------------------------------------------------
(* Python values.                                                          *)

NoneV == -1
PyNone == [kind |-> "none", val |-> <<>>]
PyStr(s) == [kind |-> "str", val |-> s]
PyBytes(b) == [kind |-> "bytes", val |-> b]
PyInt(i) == [kind |-> "int", val |-> <<i>>]

Truthy(x) ==
    CASE x.kind = "none" -> FALSE
      [] x.kind = "int" -> x.val # <<0>>
      [] OTHER -> x.val # <<>>

isinstance(x, t) == x.kind = t

SeqsUpTo(S, n) == UNION {[1..k -> S] : k \in 0..n}

---------------------------------------------------------------------------
(* bof.base.to_property: sub('[^0-9a-zA-Z]+', '_', value).                 *)

Alnum == (48..57) \cup (65..90) \cup (97..122)

RECURSIVE SkipNonAlnum(_)
SkipNonAlnum(s) ==
    IF s = <<>> \/ Head(s) \in Alnum THEN s ELSE SkipNonAlnum(Tail(s))

RECURSIVE to_property(_)
to_property(value) ==
    IF value = <<>> THEN <<>>
    ELSE IF Head(value) \in Alnum
         THEN <<Head(value)>> \o to_property(Tail(value))
         ELSE <<95>> \o to_property(SkipNonAlnum(Tail(value)))

---------------------------------------------------------------------------
(* int.to_bytes(2, byteorder='big') and int.from_bytes(b, byteorder="big") *)

to_bytes(k) == <<(k \div 256) % 256, k % 256>>

RECURSIVE from_bytes_little(_)
from_bytes_little(b) ==
    IF b = <<>> THEN 0 ELSE Head(b) + 256 * from_bytes_little(Tail(b))

RECURSIVE from_bytes(_)
from_bytes(b) ==
    IF b = <<>> THEN 0
    ELSE 256 * from_bytes(SubSeq(b, 1, Len(b) - 1)) + b[Len(b)]

---------------------------------------------------------------------------
(* The external protocol module bof.layers.raw_scapy.knx: the code table,  *)
(* the layer classes and the decode and encode entry points.               *)

TYPE_FIELD == "service_identifier"

CodeTable ==
    << [key |-> 1,   value |-> <<65, 65>>],
       [key |-> 513, value |-> <<65, 95, 65>>],
       [key |-> 514, value |-> <<65>>] >>

(* bind_layers(KNX, cls, service_identifier=sid): the entries payload_guess *)
(* is made of.                                                             *)
Bindings ==
    { [sid |-> 513, cls |-> "KNXSearchRequest"],
      [sid |-> 514, cls |-> "KNXSearchResponse"],
      [sid |-> 513, cls |-> "KNXSearchResponse"] }

LayerName(cls) ==
    CASE cls = "KNX" -> "KNXnet/IP"
      [] cls = "KNXSearchRequest" -> "SEARCH_REQUEST"
      [] cls = "KNXSearchResponse" -> "SEARCH_RESPONSE"
      [] OTHER -> "Raw"

Field(n, v) == [name |-> n, val |-> v]

KNX(sid, total) ==
    [cls |-> "KNX", name |-> LayerName("KNX"),
     fields |-> << Field("header_length", 6), Field("protocol_version", 16),
                   Field(TYPE_FIELD, sid), Field("total_length", total) >>]

Payload(cls, port) ==
    [cls |-> cls, name |-> LayerName(cls),
     fields |-> << Field("structure_length", 8), Field("host_protocol", 1),
                   Field("ip_address", 0), Field("port", port) >>]

Raw(load) ==
    [cls |-> "Raw", name |-> LayerName("Raw"), fields |-> << Field("load", load) >>]

FieldWidth(n) ==
    CASE n \in {"header_length", "protocol_version", "structure_length",
                "host_protocol"} -> 1
      [] n \in {TYPE_FIELD, "total_length", "port", "load"} -> 2
      [] OTHER -> 4

RECURSIVE EncInt(_, _)
EncInt(v, w) ==
    IF w = 0 THEN <<>> ELSE EncInt(v \div 256, w - 1) \o <<v % 256>>

RECURSIVE DecodeFields(_, _)
DecodeFields(names, b) ==
    IF names = <<>> THEN <<>>
    ELSE LET w == FieldWidth(Head(names)) IN
         <<Field(Head(names), from_bytes(SubSeq(b, 1, w)))>>
            \o DecodeFields(Tail(names), SubSeq(b, w + 1, Len(b)))

FieldNames(layer) == [i \in 1..Len(layer.fields) |-> layer.fields[i].name]

RECURSIVE WidthOf(_)
WidthOf(names) ==
    IF names = <<>> THEN 0 ELSE FieldWidth(Head(names)) + WidthOf(Tail(names))

(* KNX(_pkt=b): the header is dissected from the first six bytes; what     *)
(* follows goes to the first payload_guess entry whose discriminator       *)
(* matches (Raw when none does), and bytes left over to a Raw layer.       *)
Decode(b, guess) ==
    IF b = <<>> THEN << KNX(NoneV, NoneV) >>
    ELSE LET hdr == [KNX(NoneV, NoneV) EXCEPT !.fields =
                        DecodeFields(FieldNames(KNX(NoneV, NoneV)), b)]
             sid == hdr.fields[3].val
             rest == SubSeq(b, 7, Len(b))
             m == SelectSeq(guess, LAMBDA e : e.sid = sid)
         IN  IF rest = <<>> THEN << hdr >>
             ELSE IF m = <<>> THEN << hdr, Raw(rest) >>
             ELSE LET proto == Payload(m[1].cls, 0)
                      n == WidthOf(FieldNames(proto))
                      body == [proto EXCEPT !.fields =
                                  DecodeFields(FieldNames(proto), rest)]
                      left == SubSeq(rest, n + 1, Len(rest))
                  IN  IF left = <<>> THEN << hdr, body >>
                      ELSE << hdr, body, Raw(left) >>

LayerLen(layer) ==
    IF layer.cls = "Raw" THEN Len(layer.fields[1].val)
    ELSE WidthOf(FieldNames(layer))

RECURSIVE TreeLen(_)
TreeLen(tree) ==
    IF tree = <<>> THEN 0 ELSE LayerLen(Head(tree)) + TreeLen(Tail(tree))

RECURSIVE EncFields(_, _)
EncFields(fs, total) ==
    IF fs = <<>> THEN <<>>
    ELSE LET f == Head(fs)
             v == IF f.val # NoneV THEN f.val
                  ELSE IF f.name = "total_length" THEN total ELSE 0
         IN  EncInt(v, FieldWidth(f.name)) \o EncFields(Tail(fs), total)

RECURSIVE EncLayers(_, _)
EncLayers(tree, total) ==
    IF tree = <<>> THEN <<>>
    ELSE (IF Head(tree).cls = "Raw" THEN Head(tree).fields[1].val
          ELSE EncFields(Head(tree).fields, total))
         \o EncLayers(Tail(tree), total)

(* bytes(frame): the root layer's encode routine.                          *)
Serialize(tree) == EncLayers(tree, TreeLen(tree))

(* A value has an encoding on w bytes when it is an unsigned integer of at *)
(* most w base-256 digits; the encode routine reports every other value.   *)
RECURSIVE Fits(_, _)
Fits(v, w) ==
    IF v < 0 THEN FALSE
    ELSE IF w = 0 THEN v = 0 ELSE Fits(v \div 256, w - 1)

Encodable(tree) ==
    \A i \in 1..Len(tree) :
        tree[i].cls # "Raw" =>
            \A j \in 1..Len(tree[i].fields) :
                LET f == tree[i].fields[j] IN
                f.val = NoneV \/ Fits(f.val, FieldWidth(f.name))

---------------------------------------------------------------------------
(* bof.packet.BOFPacket: attribute-style field access over the layer tree. *)

HasField(layer, n) == \E i \in 1..Len(layer.fields) : layer.fields[i].name = n

FieldIndex(layer, n) ==
    CHOOSE i \in 1..Len(layer.fields) : layer.fields[i].name = n

FindLayer_deepest(tree, n) ==
    IF \E i \in 1..Len(tree) : HasField(tree[i], n)
    THEN CHOOSE i \in 1..Len(tree) :
            /\ HasField(tree[i], n)
            /\ \A j \in (i + 1)..Len(tree) : ~HasField(tree[j], n)
    ELSE 0

(* Index of the outermost layer declaring n, 0 when no layer does.         *)
FindLayer(tree, n) ==
    IF \E i \in 1..Len(tree) : HasField(tree[i], n)
    THEN CHOOSE i \in 1..Len(tree) :
            /\ HasField(tree[i], n)
            /\ \A j \in 1..(i - 1) : ~HasField(tree[j], n)
    ELSE 0

Get(tree, n) ==
    LET i == FindLayer(tree, n) IN tree[i].fields[FieldIndex(tree[i], n)].val

Set_validating(tree, n, v) ==
    LET i == FindLayer(tree, n) IN
    IF Fits(v, FieldWidth(n))
    THEN [tree EXCEPT ![i].fields[FieldIndex(tree[i], n)].val = v]
    ELSE tree

(* Assignment stores the value as given; nothing is encoded here.          *)
Set(tree, n, v) ==
    LET i == FindLayer(tree, n) IN
    [tree EXCEPT ![i].fields[FieldIndex(tree[i], n)].val = v]

(* frame.fields: the root layer's own fields.                              *)
Iterate(tree) == IF tree = <<>> THEN <<>> ELSE FieldNames(tree[1])

(* _set_fields: one Set per keyword initializer, in the caller's order;   *)
(* the first failure is raised and ends the loop.                          *)
RECURSIVE _set_fields(_, _, _)
_set_fields(tree, kwargs, done) ==
    IF kwargs = <<>> THEN [pkt |-> tree, err |-> "none", applied |-> done]
    ELSE IF FindLayer(tree, Head(kwargs).name) = 0
         THEN [pkt |-> tree, err |-> "FieldNotFound", applied |-> done]
         ELSE _set_fields(Set(tree, Head(kwargs).name, Head(kwargs).val),
                          Tail(kwargs), done + 1)

---------------------------------------------------------------------------
(* KNXPacket.set_type, lines 85-90: a name is replaced by the two-byte key *)
(* of the first table entry whose normalised name equals its own.          *)

ResolveName_unconverted(ptype, table) == ptype

ResolveName_fallback(ptype, table) ==
    IF isinstance(ptype, "str")
    THEN LET hits == SelectSeq(table,
                 LAMBDA e : to_property(ptype.val) = to_property(e.value))
         IN  PyBytes(to_bytes(IF hits = <<>> THEN table[1].key ELSE hits[1].key))
    ELSE ptype

ResolveName(ptype, table) ==
    IF isinstance(ptype, "str")
    THEN LET hits == SelectSeq(table,
                 LAMBDA e : to_property(ptype.val) = to_property(e.value))
         IN  IF hits = <<>> THEN ptype ELSE PyBytes(to_bytes(hits[1].key))
    ELSE ptype

Matches_first(itype, guess) ==
    LET hits == SelectSeq(guess, LAMBDA e : e.sid = itype) IN
    IF hits = <<>> THEN <<>> ELSE << hits[1] >>

(* Line 96: the classes bound to the header under this discriminator.      *)
Matches(itype, guess) == SelectSeq(guess, LAMBDA e : e.sid = itype)

set_type_headeronly(ptype, table, guess) ==
    LET resolved == ResolveName(ptype, table) IN
    IF ~isinstance(resolved, "bytes")
    THEN [err |-> "InvalidType", pkt |-> <<>>, lookup |-> FALSE]
    ELSE LET itype == from_bytes(resolved.val)
             found == Matches(itype, guess)
         IN  IF Len(found) = 0
             THEN [err |-> "none", lookup |-> TRUE,
                   pkt |-> << KNX(itype, NoneV) >>]
             ELSE IF Len(found) > 1
             THEN [err |-> "UnknownType", pkt |-> <<>>, lookup |-> TRUE]
             ELSE [err |-> "none", lookup |-> TRUE,
                   pkt |-> << KNX(itype, NoneV), Payload(found[1].cls, 0) >>]

set_type(ptype, table, guess) ==
    LET resolved == ResolveName(ptype, table) IN
    IF ~isinstance(resolved, "bytes")
    THEN [err |-> "InvalidType", pkt |-> <<>>, lookup |-> FALSE]
    ELSE LET itype == from_bytes(resolved.val)
             found == Matches(itype, guess)
         IN  IF Len(found) # 1
             THEN [err |-> "UnknownType", pkt |-> <<>>, lookup |-> TRUE]
             ELSE [err |-> "none", lookup |-> TRUE,
                   pkt |-> << KNX(itype, NoneV), Payload(found[1].cls, 0) >>]

BuildPath_typefirst(_pkt, scapy_arg, type) ==
    IF Truthy(type) THEN "type"
    ELSE IF Truthy(_pkt) \/ scapy_arg = <<>> THEN "bytes"
    ELSE "scapy"

BuildPath_noempty(_pkt, scapy_arg, type) ==
    IF Truthy(_pkt) THEN "bytes"
    ELSE IF scapy_arg # <<>> THEN "scapy"
    ELSE "type"

(* KNXPacket.__init__, lines 67-75.                                        *)
BuildPath(_pkt, scapy_arg, type) ==
    IF Truthy(_pkt) \/ (~Truthy(type) /\ scapy_arg = <<>>) THEN "bytes"
    ELSE IF scapy_arg # <<>> THEN "scapy"
    ELSE "type"

KNXPacket_init_rollback(_pkt, scapy_arg, type, kwargs, table, guess) ==
    LET path == BuildPath(_pkt, scapy_arg, type)
        built == CASE path = "bytes" ->
                        [err |-> "none", lookup |-> FALSE,
                         pkt |-> Decode(_pkt.val, guess)]
                   [] path = "scapy" ->
                        [err |-> "none", lookup |-> FALSE, pkt |-> scapy_arg]
                   [] OTHER -> set_type(type, table, guess)
    IN  IF built.err # "none"
        THEN [err |-> built.err, pkt |-> <<>>, lookup |-> built.lookup,
              applied |-> 0, path |-> path]
        ELSE LET r == _set_fields(built.pkt, kwargs, 0) IN
             [err |-> r.err, lookup |-> built.lookup, path |-> path,
              pkt |-> IF r.err = "none" THEN r.pkt ELSE built.pkt,
              applied |-> IF r.err = "none" THEN r.applied ELSE 0]

KNXPacket_init_lenient(_pkt, scapy_arg, type, kwargs, table, guess) ==
    LET path == BuildPath(_pkt, scapy_arg, type)
        built == CASE path = "bytes" ->
                        [err |-> "none", lookup |-> FALSE,
                         pkt |-> Decode(_pkt.val, guess)]
                   [] path = "scapy" ->
                        [err |-> "none", lookup |-> FALSE, pkt |-> scapy_arg]
                   [] OTHER -> set_type(type, table, guess)
    IN  IF built.err # "none"
        THEN [err |-> built.err, pkt |-> <<>>, lookup |-> built.lookup,
              applied |-> 0, path |-> path]
        ELSE LET r == _set_fields(built.pkt, kwargs, 0) IN
             [err |-> "none", pkt |-> r.pkt, lookup |-> built.lookup,
              applied |-> r.applied, path |-> path]

KNXPacket_init(_pkt, scapy_arg, type, kwargs, table, guess) ==
    LET path == BuildPath(_pkt, scapy_arg, type)
        built == CASE path = "bytes" ->
                        [err |-> "none", lookup |-> FALSE,
                         pkt |-> Decode(_pkt.val, guess)]
                   [] path = "scapy" ->
                        [err |-> "none", lookup |-> FALSE, pkt |-> scapy_arg]
                   [] OTHER -> set_type(type, table, guess)
    IN  IF built.err # "none"
        THEN [err |-> built.err, pkt |-> <<>>, lookup |-> built.lookup,
              applied |-> 0, path |-> path]
        ELSE LET r == _set_fields(built.pkt, kwargs, 0) IN
             [err |-> r.err, pkt |-> r.pkt, lookup |-> built.lookup,
              applied |-> r.applied, path |-> path]

KNXPacket_type_root(tree) ==
    IF Len(tree) >= 1 THEN tree[1].name ELSE "KNXPacket"

(* KNXPacket.type, lines 101-107.                                          *)
KNXPacket_type(tree) ==
    IF Len(tree) >= 2 THEN tree[2].name
    ELSE IF Len(tree) >= 1 THEN tree[1].name
    ELSE "KNXPacket"

---------------------------------------------------------------------------
(* Inputs.                                                                 *)

Chars == {65, 97, 95, 32}
Names == {PyStr(s) : s \in SeqsUpTo(Chars, MaxNameLen)}
ByteVals == {0, 1, 2}
ByteStrings == {PyBytes(b) : b \in SeqsUpTo(ByteVals, MaxBytesLen)}
Descriptors == {PyNone, PyInt(0), PyInt(514)} \cup Names \cup ByteStrings

RawFrame == <<6, 16, 2, 1, 0, 16, 8, 1, 0, 0, 0, 0, 0, 0, 0, 0>>
PktArgs == {PyNone, PyBytes(<<>>), PyBytes(RawFrame)}

Prebuilt ==
    << KNX(513, NoneV), Payload("KNXSearchRequest", 0),
       Payload("KNXSearchResponse", 1) >>
ScapyArgs == {<<>>, Prebuilt}

(* Keyword initializers: a dict, so no name twice, in the caller's order.   *)
KwNames == {TYPE_FIELD, "nul"}
KwValues == {513}
(* cemi is no parameter of __init__ (line 67): given as a keyword it is    *)
(* one more initializer.                                                   *)
CemiKwargs == { << [name |-> "cemi", val |-> 251] >> }

Kwargs ==
    {k \in SeqsUpTo([name : KwNames, val : KwValues], Cardinality(KwNames)) :
        \A i, j \in 1..Len(k) : i # j => k[i].name # k[j].name}
    \cup CemiKwargs

SetNames == KwNames \cup {"port"}

(* Values assigned after construction: a legal one and one that no two-byte *)
(* field can encode.                                                        *)
SetValues == KwValues \cup {70000}

Registries == SeqsUpTo(Bindings, MaxGuess)

---------------------------------------------------------------------------
(* The state machine: one frame object, from its construction on.  call    *)
(* holds the arguments and the outcome of the call that has just returned. *)

NoCall ==
    [op |-> "none", _pkt |-> PyNone, scapy_arg |-> <<>>, type |-> PyNone,
     kwargs |-> <<>>, name |-> "", value |-> NoneV, err |-> "none",
     lookup |-> FALSE, applied |-> 0, path |-> "", ret |-> NoneV,
     tname |-> "", before |-> <<>>, raw |-> <<>>]

Init ==
    /\ SERVICE_IDENTIFIER_CODES = CodeTable
    /\ payload_guess \in Registries
    /\ scapy_pkt = <<>>
    /\ pc = "new"
    /\ call = NoCall

Construct ==
    /\ pc = "new"
    /\ \E _pkt \in PktArgs, scapy_arg \in ScapyArgs,
          type \in Descriptors, kwargs \in Kwargs :
          LET r == KNXPacket_init(_pkt, scapy_arg, type, kwargs,
                                  SERVICE_IDENTIFIER_CODES, payload_guess)
          IN  /\ scapy_pkt' = r.pkt
              /\ call' = [NoCall EXCEPT !.op = "init", !._pkt = _pkt,
                              !.scapy_arg = scapy_arg, !.type = type,
                              !.kwargs = kwargs, !.err = r.err,
                              !.lookup = r.lookup, !.applied = r.applied,
                              !.path = r.path]
    /\ pc' = "returned"
    /\ UNCHANGED <<SERVICE_IDENTIFIER_CODES, payload_guess>>

SetType_partial ==
    /\ pc = "idle"
    /\ \E ptype \in Descriptors :
          LET r == set_type(ptype, SERVICE_IDENTIFIER_CODES, payload_guess)
          IN  /\ scapy_pkt' = IF r.err = "none" THEN r.pkt
                              ELSE << KNX(NoneV, NoneV) >>
              /\ call' = [NoCall EXCEPT !.op = "set_type", !.type = ptype,
                              !.err = r.err, !.lookup = r.lookup,
                              !.path = "type", !.before = scapy_pkt]
    /\ pc' = "returned"
    /\ UNCHANGED <<SERVICE_IDENTIFIER_CODES, payload_guess>>

SetType_binding ==
    /\ pc = "idle"
    /\ \E ptype \in Descriptors :
          LET r == set_type(ptype, SERVICE_IDENTIFIER_CODES, payload_guess)
          IN  /\ scapy_pkt' = IF r.err = "none" THEN r.pkt ELSE scapy_pkt
              /\ payload_guess' = IF r.err = "UnknownType"
                                    THEN Append(payload_guess,
                                           [sid |-> 1, cls |-> "KNXSearchRequest"])
                                    ELSE payload_guess
              /\ call' = [NoCall EXCEPT !.op = "set_type", !.type = ptype,
                              !.err = r.err, !.lookup = r.lookup,
                              !.path = "type", !.before = scapy_pkt]
    /\ pc' = "returned"
    /\ UNCHANGED SERVICE_IDENTIFIER_CODES

SetType ==
    /\ pc = "idle"
    /\ \E ptype \in Descriptors :
          LET r == set_type(ptype, SERVICE_IDENTIFIER_CODES, payload_guess)
          IN  /\ scapy_pkt' = IF r.err = "none" THEN r.pkt ELSE scapy_pkt
              /\ call' = [NoCall EXCEPT !.op = "set_type", !.type = ptype,
                              !.err = r.err, !.lookup = r.lookup,
                              !.path = "type", !.before = scapy_pkt]
    /\ pc' = "returned"
    /\ UNCHANGED <<SERVICE_IDENTIFIER_CODES, payload_guess>>

SetField ==
    /\ pc = "idle"
    /\ \E n \in SetNames, v \in SetValues :
          LET r == _set_fields(scapy_pkt, <<[name |-> n, val |-> v]>>, 0)
          IN  /\ scapy_pkt' = r.pkt
              /\ call' = [NoCall EXCEPT !.op = "set", !.name = n, !.value = v,
                              !.err = r.err, !.applied = r.applied,
                              !.before = scapy_pkt]
    /\ pc' = "returned"
    /\ UNCHANGED <<SERVICE_IDENTIFIER_CODES, payload_guess>>

GetField ==
    /\ pc = "idle"
    /\ \E n \in SetNames :
          call' = IF FindLayer(scapy_pkt, n) = 0
                  THEN [NoCall EXCEPT !.op = "get", !.name = n,
                           !.err = "FieldNotFound", !.before = scapy_pkt]
                  ELSE [NoCall EXCEPT !.op = "get", !.name = n,
                           !.ret = Get(scapy_pkt, n), !.before = scapy_pkt]
    /\ pc' = "returned"
    /\ UNCHANGED <<SERVICE_IDENTIFIER_CODES, payload_guess, scapy_pkt>>

ReadType ==
    /\ pc = "idle"
    /\ call' = [NoCall EXCEPT !.op = "type", !.before = scapy_pkt,
                    !.tname = KNXPacket_type(scapy_pkt)]
    /\ pc' = "returned"
    /\ UNCHANGED <<SERVICE_IDENTIFIER_CODES, payload_guess, scapy_pkt>>

(* bytes(frame): the whole tree is encoded, or the encode routine's error  *)
(* comes through; the frame is not changed.                                *)
ToBytes ==
    /\ pc = "idle"
    /\ call' = IF Encodable(scapy_pkt)
               THEN [NoCall EXCEPT !.op = "bytes", !.before = scapy_pkt,
                        !.raw = Serialize(scapy_pkt)]
               ELSE [NoCall EXCEPT !.op = "bytes", !.before = scapy_pkt,
                        !.err = "EncodeError"]
    /\ pc' = "returned"
    /\ UNCHANGED <<SERVICE_IDENTIFIER_CODES, payload_guess, scapy_pkt>>

(* The caller takes the result: a constructor that raised returns no frame. *)
Return ==
    /\ pc = "returned"
    /\ IF call.op = "init" /\ call.err # "none"
       THEN pc' = "dead" /\ scapy_pkt' = <<>>
       ELSE pc' = "idle" /\ UNCHANGED scapy_pkt
    /\ call' = NoCall
    /\ UNCHANGED <<SERVICE_IDENTIFIER_CODES, payload_guess>>

Next ==
    Construct \/ SetType \/ SetField \/ GetField \/ ReadType \/ ToBytes \/ Return

Spec == Init /\ [][Next]_vars

---------------------------------------------------------------------------
(* Vocabulary of the properties.                                           *)

(* The call that has just returned resolved a type descriptor: set_type on *)
(* a built frame, or a construction given neither bytes nor a layer.       *)
ByDescriptor ==
    \/ call.op = "set_type"
    \/ /\ call.op = "init"
       /\ ~Truthy(call._pkt)
       /\ call.scapy_arg = <<>>
       /\ Truthy(call.type)

(* The registry entries that declare code c.                               *)
Entries(c) == {i \in 1..Len(payload_guess) : payload_guess[i].sid = c}

RegisteredCodes == {payload_guess[i].sid : i \in 1..Len(payload_guess)}

TableNames == {SERVICE_IDENTIFIER_CODES[i].value :
                  i \in 1..Len(SERVICE_IDENTIFIER_CODES)}

(* The frame a descriptor-only build of code c through entry i yields.     *)
LayoutOf(c, i) == << KNX(c, NoneV), Payload(payload_guess[i].cls, 0) >>

(* C1: for every code c the registry holds exactly once, building from the *)
(* two-byte descriptor of c succeeds, the tree is the KNX header followed  *)
(* by the registered payload layer, and service_identifier reads c.        *)
C1_RegisteredCodeBuilds ==
    \A c \in RegisteredCodes :
        ( /\ ByDescriptor
          /\ call.kwargs = <<>>
          /\ call.type = PyBytes(<<c \div 256, c % 256>>)
          /\ Cardinality(Entries(c)) = 1 )
        => /\ call.err = "none"
           /\ Len(scapy_pkt) = 2
           /\ scapy_pkt[1].cls = "KNX"
           /\ \A i \in Entries(c) : scapy_pkt = LayoutOf(c, i)
           /\ Get(scapy_pkt, TYPE_FIELD) = c

C1_Witness ==
    /\ call.op = "init"
    /\ ByDescriptor
    /\ call.kwargs = <<>>
    /\ call.type = PyBytes(<<2, 1>>)
    /\ Cardinality(Entries(513)) = 1
    /\ call.err = "none"
    /\ Get(scapy_pkt, TYPE_FIELD) = 513

(* C2: for every name n of the code table, with code c, building from n    *)
(* and building from c end the same way: the same error, or the same layer *)
(* tree and the same serialized bytes.                                     *)
C2_NameAndCodeAgree ==
    \A i \in 1..Len(SERVICE_IDENTIFIER_CODES) :
        LET e == SERVICE_IDENTIFIER_CODES[i]
            byCode == KNXPacket_init(PyNone, <<>>, PyBytes(to_bytes(e.key)),
                          call.kwargs, SERVICE_IDENTIFIER_CODES, payload_guess)
        IN  ( /\ call.op = "init"
              /\ ByDescriptor
              /\ call.type = PyStr(e.value) )
            => /\ call.err = byCode.err
               /\ scapy_pkt = byCode.pkt
               /\ Serialize(scapy_pkt) = Serialize(byCode.pkt)

C2_Witness ==
    /\ call.op = "init"
    /\ ByDescriptor
    /\ call.kwargs = <<>>
    /\ call.type = PyStr(<<65, 95, 65>>)
    /\ call.err = "none"
    /\ Serialize(scapy_pkt) = <<6, 16, 2, 1, 0, 14, 8, 1, 0, 0, 0, 0, 0, 0>>

(* The normal form the specification gives a name: letters folded to one  *)
(* case, every run of non-alphanumeric characters one separator.           *)
Lower(ch) == IF ch \in 65..90 THEN ch + 32 ELSE ch

RECURSIVE Canon(_)
Canon(s) ==
    IF s = <<>> THEN <<>>
    ELSE IF Head(s) \in Alnum THEN <<Lower(Head(s))>> \o Canon(Tail(s))
         ELSE <<95>> \o Canon(SkipNonAlnum(Tail(s)))

(* What the frame holds after a failed resolution: nothing when it was     *)
(* being constructed, what it held before otherwise.                       *)
Untouched == scapy_pkt = IF call.op = "init" THEN <<>> ELSE call.before

(* C3: a name that differs from a name n of the code table only in letter  *)
(* case or in the characters separating its words resolves as n does.      *)
C3_CaseAndSeparatorInsensitive ==
    \A i \in 1..Len(SERVICE_IDENTIFIER_CODES) :
        LET e == SERVICE_IDENTIFIER_CODES[i]
            asNamed == set_type(PyStr(e.value), SERVICE_IDENTIFIER_CODES,
                                payload_guess)
        IN  ( /\ ByDescriptor
              /\ call.kwargs = <<>>
              /\ isinstance(call.type, "str")
              /\ Canon(call.type.val) = Canon(e.value) )
            => /\ call.err = asNamed.err
               /\ asNamed.err = "none" => scapy_pkt = asNamed.pkt

(* C4: a non-empty name whose normal form is that of no name of the code   *)
(* table fails with InvalidType; no registry lookup is made and no frame   *)
(* is built in its place.                                                  *)
C4_UnregisteredNameInvalid ==
    ( /\ ByDescriptor
      /\ isinstance(call.type, "str")
      /\ call.type.val # <<>>
      /\ \A n \in TableNames : Canon(call.type.val) # Canon(n) )
    => /\ call.err = "InvalidType"
       /\ ~call.lookup
       /\ Untouched

C4_Witness ==
    /\ call.op = "init"
    /\ ByDescriptor
    /\ call.type = PyStr(<<65, 65, 65>>)
    /\ call.err = "InvalidType"
    /\ scapy_pkt = <<>>

(* The codes a descriptor stands for: the big-endian value of a byte       *)
(* string, the key of a name of the code table.                            *)
CodesOf(d) ==
    IF isinstance(d, "bytes") THEN {from_bytes(d.val)}
    ELSE IF isinstance(d, "str")
    THEN {SERVICE_IDENTIFIER_CODES[i].key :
            i \in {j \in 1..Len(SERVICE_IDENTIFIER_CODES) :
                      SERVICE_IDENTIFIER_CODES[j].value = d.val}}
    ELSE {}

(* C5: a code, or a name of the code table, whose code the registry holds  *)
(* no entry for fails with UnknownType, the codes of the table that have   *)
(* no payload layout included.                                             *)
C5_UnregisteredCodeUnknown ==
    \A c \in CodesOf(call.type) :
        (ByDescriptor /\ Entries(c) = {})
        => /\ call.err = "UnknownType"
           /\ call.lookup
           /\ Untouched

C5_Witness ==
    /\ call.op = "init"
    /\ ByDescriptor
    /\ call.type = PyBytes(<<0, 1>>)
    /\ 1 \in {SERVICE_IDENTIFIER_CODES[i].key :
                 i \in 1..Len(SERVICE_IDENTIFIER_CODES)}
    /\ call.err = "UnknownType"

(* C6, as the specification states it: exactly one entry gives its       *)
(* constructor, none fails with UnknownType, several fail with             *)
(* AmbiguousType, an outcome of its own.                                   *)
C6_AmbiguousDistinguished ==
    \A c \in CodesOf(call.type) :
        (ByDescriptor /\ call.kwargs = <<>>)
        => /\ Cardinality(Entries(c)) = 1
                => /\ call.err = "none"
                   /\ \A i \in Entries(c) : scapy_pkt = LayoutOf(c, i)
           /\ Cardinality(Entries(c)) = 0 => call.err = "UnknownType"
           /\ Cardinality(Entries(c)) > 1 => call.err = "AmbiguousType"

(* C6, amended: exactly one entry gives its constructor; none and several  *)
(* both fail with UnknownType and build nothing, so that no entry is ever  *)
(* picked among several.                                                   *)
C6_LookupExactlyOne ==
    \A c \in CodesOf(call.type) :
        (ByDescriptor /\ call.kwargs = <<>>)
        => /\ Cardinality(Entries(c)) = 1
                => /\ call.err = "none"
                   /\ \A i \in Entries(c) : scapy_pkt = LayoutOf(c, i)
           /\ Cardinality(Entries(c)) # 1
                => /\ call.err = "UnknownType"
                   /\ Untouched

C6_Witness ==
    /\ call.op = "init"
    /\ ByDescriptor
    /\ call.type = PyBytes(<<2, 1>>)
    /\ Cardinality(Entries(513)) = 2
    /\ payload_guess[1].cls # payload_guess[2].cls
    /\ call.err = "UnknownType"
    /\ scapy_pkt = <<>>

HeaderFields ==
    <<"header_length", "protocol_version", "service_identifier", "total_length">>

(* C7: an empty or absent descriptor, with neither bytes nor a layer,      *)
(* builds the header-only frame without a registry lookup: no payload,     *)
(* service_identifier None, and the four header fields in order.           *)
C7_EmptyDescriptorHeaderOnly ==
    ( /\ call.op = "init"
      /\ ~Truthy(call.type)
      /\ ~Truthy(call._pkt)
      /\ call.scapy_arg = <<>>
      /\ call.kwargs = <<>> )
    => /\ call.err = "none"
       /\ ~call.lookup
       /\ Len(scapy_pkt) = 1
       /\ scapy_pkt[1].cls = "KNX"
       /\ Get(scapy_pkt, TYPE_FIELD) = NoneV
       /\ Iterate(scapy_pkt) = HeaderFields

C7_Witness ==
    /\ call.op = "init"
    /\ call.type = PyStr(<<>>)
    /\ ~Truthy(call._pkt)
    /\ call.scapy_arg = <<>>
    /\ call.kwargs = <<>>
    /\ call.err = "none"
    /\ Len(scapy_pkt) = 1
    /\ Get(scapy_pkt, TYPE_FIELD) = NoneV

(* C8: raw bytes come before a pre-built layer, and a layer before the     *)
(* descriptor: with bytes the frame is their decode, with a layer and no   *)
(* bytes it is that layer, and in both the descriptor is never resolved.   *)
C8_BuildPrecedence ==
    call.op = "init" =>
        /\ Truthy(call._pkt) =>
              LET r == _set_fields(Decode(call._pkt.val, payload_guess),
                                   call.kwargs, 0)
              IN  /\ call.path = "bytes"
                  /\ ~call.lookup
                  /\ call.err = r.err
                  /\ scapy_pkt = r.pkt
        /\ (~Truthy(call._pkt) /\ call.scapy_arg # <<>>) =>
              LET r == _set_fields(call.scapy_arg, call.kwargs, 0)
              IN  /\ call.path = "scapy"
                  /\ ~call.lookup
                  /\ call.err = r.err
                  /\ scapy_pkt = r.pkt

C8_Witness ==
    /\ call.op = "init"
    /\ call._pkt = PyBytes(RawFrame)
    /\ call.scapy_arg = Prebuilt
    /\ call.type = PyStr(<<65, 65, 65>>)
    /\ call.kwargs = <<>>
    /\ call.err = "none"
    /\ scapy_pkt = Decode(RawFrame, payload_guess)

(* The tree the constructor builds before any initializer is applied.      *)
Built ==
    KNXPacket_init(call._pkt, call.scapy_arg, call.type, <<>>,
                   SERVICE_IDENTIFIER_CODES, payload_guess)

(* The first initializer naming a field the tree does not hold.            *)
FirstBad(tree, kw) ==
    LET bad == {i \in 1..Len(kw) : FindLayer(tree, kw[i].name) = 0} IN
    IF bad = {} THEN Len(kw) + 1
    ELSE CHOOSE i \in bad : \A j \in bad : i <= j

(* C9: the initializers are applied to the built tree, on every build      *)
(* path, in the caller's order: the first k-1 are in place when the k-th   *)
(* fails, none after it is, and nothing else of the tree has changed.      *)
C9_InitializersInOrder ==
    call.op = "init" =>
        IF Built.err # "none"
        THEN call.err = Built.err /\ call.applied = 0 /\ scapy_pkt = <<>>
        ELSE LET b == Built.pkt
                 kw == call.kwargs
                 k == FirstBad(b, kw)
             IN  /\ call.applied = k - 1
                 /\ call.err = IF k <= Len(kw) THEN "FieldNotFound" ELSE "none"
                 /\ Len(scapy_pkt) = Len(b)
                 /\ \A i \in 1..Len(b) :
                       /\ scapy_pkt[i].cls = b[i].cls
                       /\ FieldNames(scapy_pkt[i]) = FieldNames(b[i])
                       /\ \A j \in 1..Len(b[i].fields) :
                             LET n == b[i].fields[j].name
                                 set == {m \in 1..(k - 1) :
                                           kw[m].name = n /\ FindLayer(b, n) = i}
                             IN  /\ set = {} =>
                                       scapy_pkt[i].fields[j].val = b[i].fields[j].val
                                 /\ \A m \in set :
                                       scapy_pkt[i].fields[j].val = kw[m].val

C9_Witness ==
    /\ call.op = "init"
    /\ ByDescriptor
    /\ call.type = PyBytes(<<2, 2>>)
    /\ call.kwargs = << [name |-> TYPE_FIELD, val |-> 513],
                        [name |-> "nul", val |-> 513] >>
    /\ call.err = "FieldNotFound"
    /\ call.applied = 1
    /\ Len(scapy_pkt) = 2
    /\ Get(scapy_pkt, TYPE_FIELD) = 513
    /\ scapy_pkt[2].cls = "KNXSearchResponse"

(* C10, as the specification states it: type is the name of the deepest    *)
(* layer of the tree.                                                      *)
C10_TypeIsDeepestLayer ==
    (call.op = "type" /\ Len(call.before) >= 1)
    => call.tname = call.before[Len(call.before)].name

(* C10, amended: type is the name of the root's immediate payload layer    *)
(* when the root has a payload, the root layer's name otherwise.           *)
C10_TypeIsImmediatePayload ==
    (call.op = "type" /\ Len(call.before) >= 1)
    => call.tname = IF Len(call.before) >= 2 THEN call.before[2].name
                    ELSE call.before[1].name

C10_Witness ==
    /\ call.op = "type"
    /\ Len(call.before) = 3
    /\ call.before[3].name = "Raw"
    /\ call.tname = "SEARCH_REQUEST"

(* C11: a failed resolution leaves no partly built frame: a constructor   *)
(* whose set_type raised has assigned no root layer and hands no frame to  *)
(* the caller, and set_type raising on a built frame leaves its layer tree *)
(* and every field value as they were.                                     *)
C11_FailedResolutionBuildsNothing ==
    /\ ( /\ call.op \in {"init", "set_type"}
         /\ call.err \in {"InvalidType", "UnknownType"} )
       => Untouched
    /\ pc = "dead" => scapy_pkt = <<>>
    /\ pc = "idle" => scapy_pkt # <<>>

C11_Witness ==
    /\ call.op = "set_type"
    /\ call.err = "UnknownType"
    /\ Len(call.before) = 2
    /\ call.before[2].cls = "KNXSearchRequest"
    /\ Get(call.before, "port") = 513
    /\ scapy_pkt = call.before

(* What set_type on a frame in use amounts to when nothing that was built *)
(* before matters: the outcome of a first construction by the same        *)
(* descriptor against the tables as they were loaded.                     *)
FreshResolution(d) ==
    KNXPacket_init(PyNone, <<>>, d, <<>>, CodeTable, payload_guess)

(* C12: the code table and the layout registry are read-only after load:  *)
(* no construction, set_type (raising or not), field read or field write  *)
(* changes either, so resolving a descriptor on a frame in use gives what  *)
(* a first construction by that descriptor gives.                          *)
C12_RegistryReadOnly ==
    /\ [][ /\ SERVICE_IDENTIFIER_CODES' = SERVICE_IDENTIFIER_CODES
           /\ payload_guess' = payload_guess ]_vars
    /\ [](SERVICE_IDENTIFIER_CODES = CodeTable)
    /\ []( ( call.op = "set_type" /\ Truthy(call.type) ) =>
             /\ call.err = FreshResolution(call.type).err
             /\ call.err = "none" =>
                   scapy_pkt = FreshResolution(call.type).pkt )

C12_Witness ==
    /\ call.op = "set_type"
    /\ call.err = "none"
    /\ call.type = PyStr(<<65>>)
    /\ Len(call.before) = 3
    /\ Get(call.before, TYPE_FIELD) = 513
    /\ SERVICE_IDENTIFIER_CODES = CodeTable
    /\ Len(payload_guess) = 2
    /\ scapy_pkt = FreshResolution(call.type).pkt

(* The layers of a tree that declare a field named n, and the value the  *)
(* i-th layer holds for it.                                                *)
Declaring(tree, n) ==
    { i \in 1..Len(tree) :
        \E j \in 1..Len(tree[i].fields) : tree[i].fields[j].name = n }

ValueIn(tree, i, n) ==
    LET j == CHOOSE k \in 1..Len(tree[i].fields) : tree[i].fields[k].name = n
    IN  tree[i].fields[j].val

Outermost(tree, n) ==
    CHOOSE i \in Declaring(tree, n) : \A k \in Declaring(tree, n) : i <= k

(* C13: a field name resolves depth-first with the outer layer winning: a *)
(* read returns the value held by the outermost layer declaring the name,  *)
(* a write changes that one field and nothing else (same-named fields of   *)
(* deeper layers included), a name declared only by a payload is found     *)
(* there, and a name no layer declares fails with FieldNotFound.           *)
C13_OuterLayerWins ==
    /\ ( call.op \in {"get", "set"} /\ Declaring(call.before, call.name) = {} )
       => ( call.err = "FieldNotFound" /\ scapy_pkt = call.before )
    /\ ( call.op = "get" /\ Declaring(call.before, call.name) # {} )
       => /\ call.err = "none"
          /\ call.ret = ValueIn(call.before, Outermost(call.before, call.name),
                                call.name)
          /\ scapy_pkt = call.before
    /\ ( call.op = "set" /\ Declaring(call.before, call.name) # {} )
       => /\ call.err = "none"
          /\ Len(scapy_pkt) = Len(call.before)
          /\ \A i \in 1..Len(scapy_pkt) :
                /\ scapy_pkt[i].cls = call.before[i].cls
                /\ Len(scapy_pkt[i].fields) = Len(call.before[i].fields)
                /\ \A j \in 1..Len(scapy_pkt[i].fields) :
                      /\ scapy_pkt[i].fields[j].name =
                            call.before[i].fields[j].name
                      /\ scapy_pkt[i].fields[j].val =
                            IF /\ i = Outermost(call.before, call.name)
                               /\ call.before[i].fields[j].name = call.name
                            THEN call.value
                            ELSE call.before[i].fields[j].val

C13_Witness ==
    /\ call.op = "set"
    /\ call.name = "port"
    /\ call.value = 513
    /\ Declaring(call.before, "port") = {2, 3}
    /\ ValueIn(call.before, 2, "port") = 0
    /\ ValueIn(scapy_pkt, 2, "port") = 513
    /\ ValueIn(scapy_pkt, 3, "port") = 1

C13_NestedWitness ==
    /\ call.op = "get"
    /\ call.name = "port"
    /\ Declaring(call.before, "port") = {2}
    /\ call.ret = 513

(* C14: assignment is optimistic and round-trips: writing any value to a *)
(* field some layer declares succeeds, values the field cannot encode      *)
(* included, and the field then reads back as that value; only encoding    *)
(* the whole frame reports an unencodable value, and it does so exactly    *)
(* when some field holds one.                                              *)
C14_OptimisticAssignment ==
    /\ ( call.op = "set" /\ Declaring(call.before, call.name) # {} )
       => /\ call.err = "none"
          /\ FindLayer(scapy_pkt, call.name) # 0
          /\ Get(scapy_pkt, call.name) = call.value
    /\ call.op \in {"init", "set_type", "set", "get", "type"}
       => call.err # "EncodeError"
    /\ call.op = "bytes"
       => /\ scapy_pkt = call.before
          /\ call.err = IF Encodable(call.before) THEN "none" ELSE "EncodeError"

C14_Witness ==
    /\ call.op = "set"
    /\ call.name = "port"
    /\ call.value = 70000
    /\ ~Fits(call.value, FieldWidth(call.name))
    /\ Encodable(call.before)
    /\ call.err = "none"
    /\ Get(scapy_pkt, "port") = 70000

C14_RejectedAtSerialize ==
    /\ call.op = "bytes"
    /\ call.err = "EncodeError"
    /\ Get(call.before, TYPE_FIELD) = 70000

(* The construction that has just returned was given a cEMI message code *)
(* and a descriptor that resolved to a layout with no cemi field.          *)
SubtypeWithoutSlot ==
    /\ call.op = "init"
    /\ ByDescriptor
    /\ \E k \in 1..Len(call.kwargs) : call.kwargs[k].name = "cemi"
    /\ LET outer == set_type(call.type, SERVICE_IDENTIFIER_CODES, payload_guess)
       IN  outer.err = "none" /\ Declaring(outer.pkt, "cemi") = {}

(* C15, as the specification states it: a sub-descriptor given with an    *)
(* outer type whose layout has no slot for it fails with                   *)
(* IncompatibleSubtype.                                                    *)
C15_IncompatibleSubtype ==
    SubtypeWithoutSlot => call.err = "IncompatibleSubtype"

(* C15, as the code has it: the constructor has no sub-descriptor          *)
(* resolution; cemi is applied as a field initializer, which fails with    *)
(* FieldNotFound on a layout without that field, and the caller gets no    *)
(* frame.                                                                  *)
C15_SubtypeFieldNotFound ==
    /\ [](SubtypeWithoutSlot => call.err = "FieldNotFound")
    /\ [][ ( call.op = "init" /\ call.err # "none" )
             => ( pc' = "dead" /\ scapy_pkt' = <<>> ) ]_vars

C15_Witness ==
    /\ SubtypeWithoutSlot
    /\ call.type = PyBytes(<<2, 2>>)
    /\ call.kwargs = << [name |-> "cemi", val |-> 251] >>
    /\ call.err = "FieldNotFound"
    /\ scapy_pkt # <<>>

====
